---- MODULE Spec2Model ----
(***************************************************************************)
(* pubserve: a Publisher keeps a Vec of reference-counted Subscriber       *)
(* handles; subscribe pushes, unsubscribe retains the entries that are not *)
(* ptr_eq to the argument, publish walks the Vec and calls update on each  *)
(* entry (awaiting each call in turn when the "async" feature is on).      *)
(***************************************************************************)
EXTENDS Integers, Sequences, FiniteSets, TLC

VARIABLES
    instances,    \* the publisher instances that exist
    async,        \* per publisher instance: its crate is built with feature "async"
    subscribers,  \* Publisher::subscribers, one Vec per publisher instance
    received,     \* per subscriber object: the messages update was invoked with
    calls,        \* per task: the frame of its current or last publish call
    live,         \* history: handles subscribed to a publisher and not unsubscribed since
    last,         \* history: the last subscribe / unsubscribe call and the Vec before it
    cloneReq,     \* history: the <<original, duplicate>> pairs .clone() was asked for
    npublish      \* history: the number of publish calls made so far

vars == <<instances, async, subscribers, received, calls, live, last, cloneReq, npublish>>

\* ---- bounds of the model
MaxSubs == 3        \* registrations over all publishers
MaxPublish == 2     \* publish calls in one behaviour

\* ---- the finite universe
Pubs == {"p1", "p2"}
Objects == {"a", "b", "c"}     \* allocations ReferenceCounted::new returned (addresses)
Tasks == {"t1", "t2"}
FirstMessage == 42             \* the k-th publish call sends 42, 43, ...
Messages == FirstMessage .. (FirstMessage + MaxPublish - 1)

\* ---- helpers on sequences
Range(s) == {s[i] : i \in 1..Len(s)}

Count(s, x) == Cardinality({i \in 1..Len(s) : s[i] = x})

RECURSIVE SumLen(_, _)
SumLen(f, S) ==
    IF S = {} THEN 0
    ELSE LET p == CHOOSE q \in S : TRUE IN Len(f[p]) + SumLen(f, S \ {p})

\* ---- the library's functions, as operators on the Vec
\* the reverse of a sequence
Reverse(s) == [i \in 1..Len(s) |-> s[Len(s) + 1 - i]]

\* s without its first entry equal to x
RECURSIVE RemoveFirst(_, _)
RemoveFirst(s, x) ==
    IF s = << >> THEN << >>
    ELSE IF Head(s) = x THEN Tail(s)
    ELSE <<Head(s)>> \o RemoveFirst(Tail(s), x)

\* faulty variant: handles compared by the value of the object (what it recorded)
ptr_eq_value(a, b) == received[a] = received[b]

\* ReferenceCounted::ptr_eq: same allocation
ptr_eq(a, b) == a = b

\* faulty variant: the constructor registers a subscriber of its own
new_seeded == <<"a">>

\* Publisher::default / Publisher::new
new == << >>

\* faulty variant: the negation of is_empty is lost
has_subscribers_negated(list) == Len(list) = 0

\* Publisher::has_subscribers
has_subscribers(list) == ~(Len(list) = 0)

\* faulty variant: a handle already in the Vec is not pushed again
subscribe_dedup(list, subscriber) ==
    IF \E i \in 1..Len(list) : list[i] = subscriber THEN list
    ELSE Append(list, subscriber)

\* faulty variant: the new entry is put in front of the Vec
subscribe_front(list, subscriber) == <<subscriber>> \o list

\* Publisher::subscribe: Vec::push
subscribe(list, subscriber) == Append(list, subscriber)

\* faulty variant: only the first matching entry is removed
unsubscribe_first(list, subscriber) == RemoveFirst(list, subscriber)

\* faulty variant: registrations are counted, one call takes the newest one back
unsubscribe_counted(list, subscriber) ==
    Reverse(RemoveFirst(Reverse(list), subscriber))

\* faulty variant: the entries that stay are not kept in their order
unsubscribe_unordered(list, subscriber) ==
    Reverse(SelectSeq(list, LAMBDA s : ~(s = subscriber)))

\* Publisher::unsubscribe: Vec::retain
unsubscribe(list, subscriber) ==
    SelectSeq(list, LAMBDA s : ~ptr_eq(s, subscriber))

\* ---- publish calls
\* st: none, running (in the for loop), awaiting (at the .await of an update
\* that is pending), returned, panicked (unwound), cancelled (future dropped)
NoCall == [pub |-> "p1", msg |-> FirstMessage, idx |-> 1, st |-> "none",
           started |-> << >>, done |-> 0, fault |-> 0, atStart |-> << >>]

InFlight(t) == calls[t].st \in {"running", "awaiting"}

\* faulty variant: publish does not hold the publisher while it runs
Borrowed_never(p) == FALSE

\* a publish call holds &self of publisher p
Borrowed(p) == \E t \in Tasks : InFlight(t) /\ calls[t].pub = p

\* the frames of the calls that have ended are gone once the caller goes on
Forget(cs) == [t \in Tasks |-> IF cs[t].st \in {"running", "awaiting"} THEN cs[t] ELSE NoCall]

NoOp == [op |-> "none", pub |-> "p1", arg |-> "a", pre |-> << >>]

\* the history entry r, unless the program does not keep the history
Record(r) == IF last.op = "off" THEN last ELSE r

Init ==
    /\ instances = {"p1"}
    /\ \E b \in BOOLEAN : async = [p \in Pubs |-> b]
    /\ subscribers = [p \in Pubs |-> new]
    /\ received = [o \in Objects |-> {}]
    /\ calls = [t \in Tasks |-> NoCall]
    /\ live = [p \in Pubs |-> {}]
    /\ last = NoOp
    /\ cloneReq = {}
    /\ npublish = 0

\* publisher.subscribe(handle): needs &mut self, so no publish is running on it
Subscribe(p, h) ==
    /\ ~Borrowed(p)
    /\ SumLen(subscribers, Pubs) < MaxSubs
    /\ subscribers' = [subscribers EXCEPT ![p] = subscribe(@, h)]
    /\ live' = [live EXCEPT ![p] = @ \cup {h}]
    /\ last' = Record([op |-> "subscribe", pub |-> p, arg |-> h, pre |-> subscribers[p]])
    /\ calls' = Forget(calls)
    /\ UNCHANGED <<instances, async, received, cloneReq, npublish>>

\* faulty variant: the handle is taken out of the Vec of every publisher
UnsubscribeEverywhere(p, h) ==
    /\ \A q \in Pubs : ~Borrowed(q)
    /\ subscribers' = [q \in Pubs |-> unsubscribe(subscribers[q], h)]
    /\ live' = [q \in Pubs |-> live[q] \ {h}]
    /\ last' = Record([op |-> "unsubscribe", pub |-> p, arg |-> h, pre |-> subscribers[p]])
    /\ calls' = Forget(calls)
    /\ UNCHANGED <<instances, async, received, cloneReq, npublish>>

\* publisher.unsubscribe(handle): needs &mut self
Unsubscribe(p, h) ==
    /\ ~Borrowed(p)
    /\ subscribers' = [subscribers EXCEPT ![p] = unsubscribe(@, h)]
    /\ live' = [live EXCEPT ![p] = @ \ {h}]
    /\ last' = Record([op |-> "unsubscribe", pub |-> p, arg |-> h, pre |-> subscribers[p]])
    /\ calls' = Forget(calls)
    /\ UNCHANGED <<instances, async, received, cloneReq, npublish>>

\* ---- Publisher::publish, one loop iteration per step
\* the entry the loop of frame c is at
Current(c) == subscribers[c.pub][c.idx]

\* faulty variant: a handle already notified by this call is not notified again
invoke_once(c) ==
    IF \E i \in 1..Len(c.started) : c.started[i][1] = subscribers[c.pub][c.idx] THEN c
    ELSE [c EXCEPT !.started = Append(@, <<subscribers[c.pub][c.idx], c.msg>>)]

\* faulty variant: the message is kept in the publisher, and a call passes on
\* the one published last
invoke_latest(c) ==
    [c EXCEPT !.started = Append(@, <<Current(c), FirstMessage + npublish - 1>>)]

\* the frame after subscriber.update(&message) was invoked on the current entry
invoke(c) == [c EXCEPT !.started = Append(@, <<Current(c), c.msg>>)]

\* not(async): update returned, the for loop goes to the next entry
returned(c) == [c EXCEPT !.done = @ + 1, !.idx = @ + 1, !.st = "running"]

\* faulty variant: after an await the loop passes over an entry
awaited_skip(c) == [c EXCEPT !.done = @ + 1, !.idx = @ + 2, !.st = "running"]

\* async: the awaited update future is ready, the for loop goes to the next entry
awaited(c) == [c EXCEPT !.done = @ + 1, !.idx = @ + 1, !.st = "running"]

\* faulty variant: a pending update is left running and the loop goes on
suspend_detached(c) == [c EXCEPT !.idx = @ + 1]

\* async: the update future is pending, publish is suspended at its .await
suspend(c) == [c EXCEPT !.st = "awaiting"]

\* faulty variant: the panic is caught and the loop goes on
unwind_caught(c) == [c EXCEPT !.fault = Len(c.started), !.idx = @ + 1, !.st = "running"]

\* update panicked: nothing in publish catches it, the call unwinds
unwind(c) == [c EXCEPT !.st = "panicked", !.fault = Len(c.started)]

\* faulty variant: dropping the future takes back the update that was pending
cancel_rollback(c) ==
    [c EXCEPT !.st = "cancelled", !.started = SubSeq(@, 1, Len(@) - 1)]

\* async: the publish future is dropped at its .await; nothing is undone
cancel(c) == [c EXCEPT !.st = "cancelled"]

\* the frame of a publish call on p with message m that has just been entered
frame(p, m) ==
    [pub |-> p, msg |-> m, idx |-> 1, st |-> "running",
     started |-> << >>, done |-> 0, fault |-> 0, atStart |-> subscribers[p]]

\* publisher.publish(message) is called by task t: takes &self. Calls that do
\* not overlap are all made by t1; t2 is the caller whose call overlaps t1's
Publish(t, p, m) ==
    /\ ~InFlight(t)
    /\ t = "t2" => InFlight("t1")
    /\ m = FirstMessage + npublish
    /\ npublish < MaxPublish
    /\ calls' = [calls EXCEPT ![t] = frame(p, m)]
    /\ npublish' = npublish + 1
    /\ UNCHANGED <<instances, async, subscribers, received, live, last, cloneReq>>

\* not(feature = "async"): subscriber.update(&message) is a plain call that
\* returns or panics
UpdateBlocking(t) ==
    LET c == calls[t] IN
    /\ ~async[c.pub]
    /\ c.st = "running"
    /\ c.idx <= Len(subscribers[c.pub])
    /\ received' = [received EXCEPT ![Current(c)] = @ \cup {c.msg}]
    /\ \E outcome \in {"return", "panic"} :
          calls' = [calls EXCEPT ![t] =
                      IF outcome = "return" THEN returned(invoke(c))
                      ELSE unwind(invoke(c))]
    /\ UNCHANGED <<instances, async, subscribers, live, last, cloneReq, npublish>>

\* feature = "async": subscriber.update(&message).await polls the future, which
\* is ready, pending or panics
UpdateAsync(t) ==
    LET c == calls[t] IN
    /\ async[c.pub]
    /\ c.st = "running"
    /\ c.idx <= Len(subscribers[c.pub])
    /\ received' = [received EXCEPT ![Current(c)] = @ \cup {c.msg}]
    /\ \E outcome \in {"ready", "pending", "panic"} :
          calls' = [calls EXCEPT ![t] =
                      CASE outcome = "ready" -> awaited(invoke(c))
                        [] outcome = "pending" -> suspend(invoke(c))
                        [] OTHER -> unwind(invoke(c))]
    /\ UNCHANGED <<instances, async, subscribers, live, last, cloneReq, npublish>>

\* the pending update future is polled again and is ready or panics
Resume(t) ==
    LET c == calls[t] IN
    /\ c.st = "awaiting"
    /\ \E outcome \in {"ready", "panic"} :
          calls' = [calls EXCEPT ![t] =
                      IF outcome = "ready" THEN awaited(c) ELSE unwind(c)]
    /\ UNCHANGED <<instances, async, subscribers, received, live, last, cloneReq, npublish>>

\* the caller drops the publish future at its suspension point
Cancel(t) ==
    /\ calls[t].st = "awaiting"
    /\ calls' = [calls EXCEPT ![t] = cancel(@)]
    /\ UNCHANGED <<instances, async, subscribers, received, live, last, cloneReq, npublish>>

\* faulty variant: the entries are moved out of the Vec as they are delivered
ReturnDrained(t) ==
    LET c == calls[t] IN
    /\ c.st = "running"
    /\ c.idx > Len(subscribers[c.pub])
    /\ calls' = [calls EXCEPT ![t].st = "returned"]
    /\ subscribers' = [subscribers EXCEPT ![c.pub] = << >>]
    /\ UNCHANGED <<instances, async, received, live, last, cloneReq, npublish>>

\* the for loop is exhausted: publish returns
Return(t) ==
    LET c == calls[t] IN
    /\ c.st = "running"
    /\ c.idx > Len(subscribers[c.pub])
    /\ calls' = [calls EXCEPT ![t].st = "returned"]
    /\ UNCHANGED <<instances, async, subscribers, received, live, last, cloneReq, npublish>>

\* the program of Spec has one publisher (Init) and calls it from one task
Callers == {"t1"}

Next ==
    \/ \E p \in instances, h \in Objects : Subscribe(p, h)
    \/ \E p \in instances, h \in Objects : Unsubscribe(p, h)
    \/ \E t \in Callers, p \in instances, m \in Messages : Publish(t, p, m)
    \/ \E t \in Callers : UpdateBlocking(t)
    \/ \E t \in Callers : UpdateAsync(t)
    \/ \E t \in Callers : Resume(t)
    \/ \E t \in Callers : Cancel(t)
    \/ \E t \in Callers : Return(t)

Spec == Init /\ [][Next]_vars

\* ---- a program that duplicates its publisher (tests/clone.rs)
\* let q = p.clone(): Publisher has no #[derive(Clone)] and no impl Clone, so
\* the call gives no publisher: no instance q comes to exist
Clone(p, q) ==
    /\ cloneReq' = cloneReq \cup {<<p, q>>}
    /\ UNCHANGED <<instances, async, subscribers, received, calls, live, last, npublish>>

\* drop(p): the Vec and its handles are released
Drop(p) ==
    /\ ~Borrowed(p)
    /\ instances' = instances \ {p}
    /\ subscribers' = [subscribers EXCEPT ![p] = << >>]
    /\ live' = [live EXCEPT ![p] = {}]
    /\ last' = NoOp
    /\ calls' = Forget(calls)
    /\ UNCHANGED <<async, received, cloneReq, npublish>>

NextClone ==
    \/ Next
    \/ \E p \in instances, q \in Pubs \ instances : Clone(p, q)
    \/ \E p \in instances : Drop(p)

SpecClone == Init /\ [][NextClone]_vars

\* ---- the same calls made on a blocking build and on an async build
\* p1 (caller t1) is the publisher of a build without "async", p2 (caller t2)
\* the publisher of a build with it; every call is made on both, the blocking
\* one first, and the subscribers behave the same in both (received holds
\* what either run delivered)
InitEq ==
    /\ instances = Pubs
    /\ async = [p \in Pubs |-> p = "p2"]
    /\ subscribers = [p \in Pubs |-> new]
    /\ received = [o \in Objects |-> {}]
    /\ calls = [t \in Tasks |-> NoCall]
    /\ live = [p \in Pubs |-> {}]
    /\ last = NoOp
    /\ cloneReq = {}
    /\ npublish = 0

EqSubscribe(h) ==
    /\ \A p \in Pubs : ~Borrowed(p)
    /\ Len(subscribers["p1"]) < MaxSubs
    /\ subscribers' = [p \in Pubs |-> subscribe(subscribers[p], h)]
    /\ live' = [p \in Pubs |-> live[p] \cup {h}]
    /\ last' = [op |-> "subscribe", pub |-> "p1", arg |-> h, pre |-> subscribers["p1"]]
    /\ calls' = Forget(calls)
    /\ UNCHANGED <<instances, async, received, cloneReq, npublish>>

EqUnsubscribe(h) ==
    /\ \A p \in Pubs : ~Borrowed(p)
    /\ subscribers' = [p \in Pubs |-> unsubscribe(subscribers[p], h)]
    /\ live' = [p \in Pubs |-> live[p] \ {h}]
    /\ last' = [op |-> "unsubscribe", pub |-> "p1", arg |-> h, pre |-> subscribers["p1"]]
    /\ calls' = Forget(calls)
    /\ UNCHANGED <<instances, async, received, cloneReq, npublish>>

EqPublish(m) ==
    /\ \A t \in Tasks : ~InFlight(t)
    /\ m = FirstMessage + npublish
    /\ npublish < MaxPublish
    /\ calls' = [t \in Tasks |-> frame(IF t = "t1" THEN "p1" ELSE "p2", m)]
    /\ npublish' = npublish + 1
    /\ UNCHANGED <<instances, async, subscribers, received, live, last, cloneReq>>

\* the update that panicked in the blocking call is the one that panics in the
\* async call
SameBehaviour ==
    LET b == calls["t1"]
        a == calls["t2"]
    IN  /\ a.st = "panicked" => b.fault = a.fault
        /\ a.st # "panicked" => (b.fault = 0 \/ b.fault > a.done)

EqUpdateAsync == ~InFlight("t1") /\ UpdateAsync("t2") /\ SameBehaviour'

EqResume == ~InFlight("t1") /\ Resume("t2") /\ SameBehaviour'

EqReturn == ~InFlight("t1") /\ Return("t2")

NextEq ==
    \/ \E h \in Objects : EqSubscribe(h)
    \/ \E h \in Objects : EqUnsubscribe(h)
    \/ \E m \in Messages : EqPublish(m)
    \/ UpdateBlocking("t1")
    \/ Return("t1")
    \/ EqUpdateAsync
    \/ EqResume
    \/ EqReturn

SpecEq == InitEq /\ [][NextEq]_vars

\* ---- a "send" + "async" build: Subscriber is Send + Sync, so the Arc handles
\* and the publishers can be shared between two threads that both call publish
\* (without "async" Subscriber is only Send, Arc<dyn Subscriber<T>> is then
\* neither Send nor Sync, and a publisher stays on one thread); the program
\* has two publishers, two subscribers, and keeps no history of its calls
SharedObjects == {"a", "b"}

NoHistory == [op |-> "off", pub |-> "p1", arg |-> "a", pre |-> << >>]

InitShared ==
    /\ instances = Pubs
    /\ async = [p \in Pubs |-> TRUE]
    /\ subscribers = [p \in Pubs |-> new]
    /\ received = [o \in Objects |-> {}]
    /\ calls = [t \in Tasks |-> NoCall]
    /\ live = [p \in Pubs |-> {}]
    /\ last = NoHistory
    /\ cloneReq = {}
    /\ npublish = 0

NextShared ==
    \/ \E p \in instances, h \in SharedObjects : Subscribe(p, h)
    \/ \E p \in instances, h \in SharedObjects : Unsubscribe(p, h)
    \/ \E t \in Tasks, p \in instances, m \in Messages : Publish(t, p, m)
    \/ \E t \in Tasks : UpdateAsync(t)
    \/ \E t \in Tasks : Resume(t)
    \/ \E t \in Tasks : Cancel(t)
    \/ \E t \in Tasks : Return(t)

SpecShared == InitShared /\ [][NextShared]_vars

\* ---- a program that also asks whether there are subscribers
\* publisher.has_subscribers(): takes &self, the answer is noted in the history
HasSubscribers(p) ==
    /\ last' = [op |-> "has_subscribers", pub |-> p,
                arg |-> IF has_subscribers(subscribers[p]) THEN "true" ELSE "false",
                pre |-> subscribers[p]]
    /\ UNCHANGED <<instances, async, subscribers, received, calls, live, cloneReq, npublish>>

NextQuery ==
    \/ Next
    \/ \E p \in instances : HasSubscribers(p)

SpecQuery == Init /\ [][NextQuery]_vars

\* ---- properties

\* the receive invocations of the first k entries of list with message m
Deliveries(list, m, k) == [i \in 1..k |-> <<list[i], m>>]

\* r is s with some entries deleted, the rest in the order of s
RECURSIVE IsSubseq(_, _)
IsSubseq(r, s) ==
    IF r = << >> THEN TRUE
    ELSE IF s = << >> THEN FALSE
    ELSE IF Head(r) = Head(s) THEN IsSubseq(Tail(r), Tail(s))
    ELSE IsSubseq(r, Tail(s))

Frames == {calls[t] : t \in Tasks} \ {NoCall}

\* C1: a publish call that has returned invoked update exactly Len(L) times,
\* the k-th time on L[k] with the message of the call, L being the Vec the
\* call started on: once per registration, in registration order, and on no
\* handle outside L.
PublishDeliversOncePerRegistration ==
    \A c \in Frames :
        c.st = "returned" => c.started = Deliveries(c.atStart, c.msg, Len(c.atStart))

\* witness of C1: a call returned on a Vec that holds a twice, b once and not c
PublishDeliversWitness ==
    \E c \in Frames :
        /\ c.st = "returned"
        /\ c.atStart = <<"a", "b", "a">>
        /\ Len(c.started) = 3

\* C2: a publish call on p invokes update only on handles that were subscribed
\* to p and not unsubscribed since; a handle that is unsubscribed from p does
\* not record the message of a call on p.
NoDeliveryAfterUnsubscribe ==
    \A c \in Frames :
        /\ \A i \in 1..Len(c.started) : c.started[i][1] \in live[c.pub]
        /\ \A o \in Objects \ live[c.pub] : c.msg \notin received[o]

\* witness of C2: a recorded 42, was unsubscribed, and 43 was published to b alone
NoDeliveryWitness ==
    /\ last.op = "unsubscribe" /\ last.arg = "a" /\ "a" \in Range(last.pre)
    /\ received["a"] = {42}
    /\ \E c \in Frames : c.st = "returned" /\ c.msg = 43 /\ c.pub = last.pub
    /\ 43 \in received["b"]

\* C3: after unsubscribe(h) the Vec is the Vec before it without the entries
\* identical to h: no entry is h, the length fell by the number of entries
\* that were h, and what is left is in the order it had.
UnsubscribeRemovesAllMatches ==
    last.op = "unsubscribe" =>
        LET L == last.pre
            R == subscribers[last.pub]
        IN  /\ last.arg \notin Range(R)
            /\ Len(R) = Len(L) - Count(L, last.arg)
            /\ IsSubseq(R, L)

\* witness of C3: unsubscribe(a) on <<a, b, a>> left <<b>>
UnsubscribeRemovesWitness ==
    /\ last.op = "unsubscribe" /\ last.arg = "a"
    /\ last.pre = <<"a", "b", "a">>
    /\ subscribers[last.pub] = <<"b">>

\* C4: unsubscribe(g) with g identical to no entry of the Vec leaves the Vec
\* as it was, and a publish call after it invokes update on the entries of
\* that Vec, in its order.
UnsubscribeUnknownIsNoOp ==
    (last.op = "unsubscribe" /\ last.arg \notin Range(last.pre)) =>
        /\ subscribers[last.pub] = last.pre
        /\ \A c \in Frames :
              c.pub = last.pub =>
                 /\ c.atStart = last.pre
                 /\ Len(c.started) <= Len(last.pre)
                 /\ c.started = Deliveries(last.pre, c.msg, Len(c.started))
                 /\ c.st = "returned" => Len(c.started) = Len(last.pre)

\* witness of C4: unsubscribe(b), b an object that recorded nothing and is in
\* no Vec, on <<a>>; the publish after it was delivered to a
UnsubscribeUnknownWitness ==
    /\ last.op = "unsubscribe" /\ last.arg = "b" /\ last.pre = <<"a">>
    /\ received["b"] = {}
    /\ \E c \in Frames : c.st = "returned" /\ c.started = <<<<"a", c.msg>>>>

\* C5: has_subscribers() is true exactly when some handle was subscribed and
\* not unsubscribed since.
HasSubscribersIffLive ==
    \A p \in Pubs : has_subscribers(subscribers[p]) <=> (live[p] # {})

\* witness of C5: a handle subscribed twice was unsubscribed and nothing is left
HasSubscribersWitness ==
    /\ last.op = "unsubscribe"
    /\ Count(last.pre, last.arg) = 2
    /\ ~has_subscribers(subscribers[last.pub])

\* C6: after subscribe(h) the Vec is the Vec before it followed by h, also
\* when h was in it already.
SubscribeAppends ==
    last.op = "subscribe" =>
        LET L == last.pre
            R == subscribers[last.pub]
        IN  /\ Len(R) = Len(L) + 1
            /\ \A i \in 1..Len(L) : R[i] = L[i]
            /\ R[Len(R)] = last.arg

\* witness of C6: a handle that was in the Vec was subscribed again
SubscribeAppendsWitness ==
    /\ last.op = "subscribe"
    /\ last.arg \in Range(last.pre)
    /\ Count(subscribers[last.pub], last.arg) = 2

\* C7: a publisher that .clone() was called on has a duplicate, and a publish
\* call on the duplicate that returns has invoked update on every entry of the
\* duplicate's Vec.
CloneDeliversAfterDrop ==
    \A r \in cloneReq :
        /\ r[2] \in instances
        /\ \A c \in Frames :
              (c.pub = r[2] /\ c.st = "returned") =>
                  c.started = Deliveries(c.atStart, c.msg, Len(c.atStart))

\* C8: in an async build, a publish call has at most one update in flight,
\* starts the update of an entry only when the updates of all entries before
\* it have completed, and returns only when the update of every entry has
\* completed.
AsyncPublishIsSequential ==
    \A c \in Frames :
        async[c.pub] =>
            /\ Len(c.started) - c.done \in {0, 1}
            /\ c.st = "running" => Len(c.started) = c.done
            /\ c.st = "awaiting" => Len(c.started) = c.done + 1
            /\ c.st = "returned" => c.done = Len(c.atStart)

\* witness of C8: the update of b is pending, that of a has completed
AsyncSequentialWitness ==
    \E c \in Frames :
        /\ async[c.pub]
        /\ c.st = "awaiting"
        /\ c.atStart = <<"a", "b">>
        /\ c.started = <<<<"a", c.msg>>, <<"b", c.msg>>>>
        /\ c.done = 1

\* C9: made on a blocking and on an async build, the same subscribe,
\* unsubscribe and publish calls leave the same Vec after every call, and a
\* publish call makes the same update invocations, in the same order, and
\* ends the same way in both; while the async call runs, what it has invoked
\* is what the blocking call invoked first.
BlockingAndAsyncAgree ==
    LET b == calls["t1"]
        a == calls["t2"]
    IN  /\ subscribers["p1"] = subscribers["p2"]
        /\ (~InFlight("t1") /\ ~InFlight("t2")) =>
              (a.started = b.started /\ a.st = b.st)
        /\ (~InFlight("t1") /\ InFlight("t2")) =>
              /\ Len(a.started) <= Len(b.started)
              /\ a.started = SubSeq(b.started, 1, Len(a.started))

\* witness of C9: both calls returned after three invocations
BlockingAndAsyncWitness ==
    /\ calls["t1"].st = "returned" /\ calls["t2"].st = "returned"
    /\ ~async[calls["t1"].pub] /\ async[calls["t2"].pub]
    /\ Len(calls["t2"].started) = 3
    /\ subscribers["p2"] = <<"a", "b", "a">>

\* C10: when the update of the entry at position k panics, the publish call
\* ends with that panic: update was invoked on the entries 1..k, once each,
\* and on none after k.
PanicAbortsPublish ==
    \A c \in Frames :
        /\ c.fault # 0 =>
              /\ c.st = "panicked"
              /\ Len(c.started) = c.fault
              /\ c.done = c.fault - 1
              /\ c.started = Deliveries(c.atStart, c.msg, c.fault)
        /\ c.st = "panicked" => c.fault # 0

\* witness of C10: the update of the second of three entries panicked
PanicAbortsWitness ==
    \E c \in Frames :
        /\ c.st = "panicked"
        /\ c.fault = 2
        /\ Len(c.atStart) = 3

\* C11 as stated: when a publish call is cancelled, no subscriber object has
\* been invoked with its message more than once.
CancelAtMostOncePerSubscriber ==
    \A c \in Frames :
        c.st = "cancelled" =>
            \A o \in Objects :
                Cardinality({i \in 1..Len(c.started) : c.started[i][1] = o}) <= 1

\* C11, amended: when a publish call is cancelled at its k-th update, update
\* has been invoked once on each of the entries 1..k of the Vec (so twice on
\* a handle that is two of them) and on no entry after k; the Vec is as it
\* was when the call started and every invoked object keeps the message.
CancelAtMostOncePerRegistration ==
    \A c \in Frames :
        c.st = "cancelled" =>
            /\ Len(c.started) = c.done + 1
            /\ Len(c.started) <= Len(c.atStart)
            /\ c.started = Deliveries(c.atStart, c.msg, Len(c.started))
            /\ subscribers[c.pub] = c.atStart
            /\ \A i \in 1..Len(c.started) : c.msg \in received[c.started[i][1]]

\* witness of C11: cancelled at the second of three entries
CancelWitness ==
    \E c \in Frames :
        /\ c.st = "cancelled"
        /\ c.atStart = <<"a", "b", "c">>
        /\ Len(c.started) = 2
        /\ received["c"] = {}

\* the Vec of a publisher is what it was when a publish call on it started and
\* when has_subscribers was asked
ListKept ==
    /\ \A c \in Frames : subscribers[c.pub] = c.atStart
    /\ last.op = "has_subscribers" => subscribers[last.pub] = last.pre

\* a step that changes a Vec is a subscribe or unsubscribe call on that publisher
OnlyListOpsChange ==
    subscribers' # subscribers =>
        /\ last'.op \in {"subscribe", "unsubscribe"}
        /\ last'.pre = subscribers[last'.pub]
        /\ \A q \in Pubs \ {last'.pub} : subscribers'[q] = subscribers[q]

\* C12: publish and has_subscribers leave the Vec of the publisher as it was
\* (entries, order, length); only subscribe and unsubscribe change it.
PublishAndQueryKeepList == []ListKept /\ [][OnlyListOpsChange]_vars

\* witness of C12: has_subscribers answered true after a publish call on a
\* Vec of three entries returned
PublishAndQueryWitness ==
    /\ last.op = "has_subscribers" /\ last.arg = "true"
    /\ \E c \in Frames : c.st = "returned" /\ Len(c.started) = 3

\* C13: a publisher from new() / default() has an empty Vec and
\* has_subscribers() is false; a publish call on an empty Vec invokes no update
\* and returns normally (no suspension, no panic, nothing delivered).
NewIsEmptyAndPublishIsNoOp ==
    /\ Len(new) = 0 /\ ~has_subscribers(new)
    /\ last.op = "none" =>
           \A p \in instances : subscribers[p] = << >> /\ ~has_subscribers(subscribers[p])
    /\ \A t \in Tasks : calls[t].st # "none" /\ calls[t].atStart = << >> =>
           /\ calls[t].started = << >> /\ calls[t].done = 0 /\ calls[t].fault = 0
           /\ calls[t].st \in {"running", "returned"}
           /\ calls[t].st = "running" => ENABLED Return(t)
           /\ \A o \in Objects : calls[t].msg \notin received[o]

\* witness of C13: the second publish call returned on a Vec emptied by
\* unsubscribe, and the first message is all that was ever delivered
PublishOnEmptyWitness ==
    \E c \in Frames :
        /\ c.st = "returned" /\ c.atStart = << >> /\ c.msg = FirstMessage + 1
        /\ ~has_subscribers(subscribers[c.pub])
        /\ received["a"] = {FirstMessage}

\* C17: registrations are not counted against removals: one unsubscribe of a
\* handle subscribed n >= 2 times removes all n entries, a following publish
\* call invokes it zero times, and has_subscribers is false if it was the only
\* handle.
OneUnsubscribeRemovesAllRegistrations ==
    last.op = "unsubscribe" /\ Count(last.pre, last.arg) >= 2 =>
        /\ Count(subscribers[last.pub], last.arg) = 0
        /\ Len(subscribers[last.pub]) = Len(last.pre) - Count(last.pre, last.arg)
        /\ Range(last.pre) = {last.arg} => ~has_subscribers(subscribers[last.pub])
        /\ \A c \in Frames : c.pub = last.pub =>
               \A i \in 1..Len(c.started) : c.started[i][1] # last.arg

\* witness of C17: a was subscribed twice and was the only handle; after one
\* unsubscribe a publish call returned
OneUnsubscribeWitness ==
    /\ last.op = "unsubscribe" /\ last.arg = "a" /\ last.pre = <<"a", "a">>
    /\ \E c \in Frames : c.st = "returned" /\ c.pub = last.pub

\* C18: a handle subscribed again after it was unsubscribed is placed after
\* every handle now in the Vec, whatever its place was before: the publish
\* calls that follow invoke the handles that were in the Vec in their order
\* and the subscribed handle last.
ResubscribedIsInvokedLast ==
    last.op = "subscribe" =>
        \A c \in Frames : c.pub = last.pub =>
            LET k == Len(c.started)
                n == Len(last.pre)
            IN  /\ k <= n + 1
                /\ \A i \in 1..k : i <= n => c.started[i] = <<last.pre[i], c.msg>>
                /\ k = n + 1 => c.started[k] = <<last.arg, c.msg>>
                /\ c.st = "returned" => k = n + 1

\* witness of C18: a was alone in the Vec for the first message, b was
\* subscribed, a was unsubscribed and subscribed again, and the second message
\* went to b first and to a last
ResubscribedWitness ==
    /\ last.op = "subscribe" /\ last.arg = "a" /\ last.pre = <<"b">>
    /\ received["a"] = {FirstMessage, FirstMessage + 1}
    /\ received["b"] = {FirstMessage + 1}
    /\ \E c \in Frames :
          /\ c.st = "returned" /\ c.pub = last.pub
          /\ c.started = <<<<"b", FirstMessage + 1>>, <<"a", FirstMessage + 1>>>>

\* C15: a publisher that .clone() was called on has a duplicate that is a
\* publisher of its own, with a Vec of its own that subscribe and unsubscribe
\* on the original do not change; the call changes neither the Vec of the
\* original nor what any subscriber received.
CloneIsIndependentCopy ==
    \A r \in cloneReq :
        /\ r[2] # r[1]
        /\ r[2] \in instances
        /\ last.op \in {"subscribe", "unsubscribe"} /\ last.pub = r[1] =>
               live[r[2]] = Range(subscribers[r[2]])

\* the handles a publisher holds are the entries of its Vec, and a publish call
\* that returned invoked every handle once per entry of the Vec of its publisher
HeldHandlesAreInvoked ==
    /\ \A q \in instances : live[q] = Range(subscribers[q])
    /\ \A c \in Frames : c.st = "returned" =>
           \A h \in Objects :
               Cardinality({i \in 1..Len(c.started) : c.started[i] = <<h, c.msg>>})
                   = Count(subscribers[c.pub], h)

\* unsubscribe on one publisher changes the Vec of no other publisher, which
\* goes on holding the handles it held
UnsubscribeIsLocal ==
    \A p \in Pubs, h \in Objects : Unsubscribe(p, h) =>
        \A q \in Pubs \ {p} :
            /\ subscribers'[q] = subscribers[q]
            /\ live'[q] = live[q]

\* C14: with the same handle in the Vec of two publishers, unsubscribe on one
\* leaves the Vec of the other as it was; the other still holds the handle, and
\* a publish call on it invokes the handle once per entry of its own Vec.
UnsubscribeLeavesOtherPublisher == []HeldHandlesAreInvoked /\ [][UnsubscribeIsLocal]_vars

\* witness of C14: while the first call (on p2, Vec <<a>>) was running, the
\* second message went to a and b, so through p1; a is no longer in the Vec of
\* p1, and the call on p2 has delivered the first message to a and returned
UnsubscribeLeavesOtherWitness ==
    /\ calls["t1"].pub = "p2" /\ calls["t1"].msg = FirstMessage
    /\ calls["t1"].st = "returned"
    /\ calls["t1"].started = <<<<"a", FirstMessage>>>>
    /\ received["b"] = {FirstMessage + 1}
    /\ received["a"] = {FirstMessage, FirstMessage + 1}
    /\ subscribers["p1"] = <<"b">> /\ subscribers["p2"] = <<"a">>

\* C16: publish calls that run at the same time, on one publisher or on two
\* that share handles, each invoke the entries of the Vec of their publisher
\* in order with the message of the call, whatever the other call does; a call
\* that returned invoked every entry once, and the two calls carry different
\* messages.
ConcurrentPublishesKeepOwnMessage ==
    /\ \A t \in Tasks : calls[t].st # "none" =>
           LET c == calls[t]
               k == Len(c.started)
           IN  /\ k <= Len(c.atStart)
               /\ c.started = Deliveries(c.atStart, c.msg, k)
               /\ \A i \in 1..k : c.msg \in received[c.atStart[i]]
               /\ c.st = "returned" => k = Len(c.atStart)
    /\ calls["t1"].st # "none" /\ calls["t2"].st # "none" =>
           calls["t1"].msg # calls["t2"].msg

\* witness of C16: on one publisher with Vec <<a, b>>, the second call was
\* started while the first was running and has returned, and the first call
\* has invoked a but not yet b, which so far received the second message only
ConcurrentPublishesWitness ==
    /\ calls["t1"].pub = "p1" /\ calls["t2"].pub = "p1"
    /\ calls["t1"].atStart = <<"a", "b">>
    /\ InFlight("t1") /\ Len(calls["t1"].started) = 1
    /\ calls["t2"].st = "returned" /\ Len(calls["t2"].started) = 2
    /\ received["a"] = {calls["t1"].msg, calls["t2"].msg}
    /\ received["b"] = {calls["t2"].msg}

\* C19: from the start to the end of a publish call, also while it is
\* suspended, no subscribe and no unsubscribe on its publisher can be made, and
\* the Vec stays what it was at the start; the handles a call that returned
\* has notified are the Vec at its start, entry by entry.
NoListChangeDuringPublish ==
    \A t \in Tasks :
        LET c == calls[t] IN
        /\ InFlight(t) =>
               /\ subscribers[c.pub] = c.atStart
               /\ \A h \in Objects :
                      /\ ~ENABLED Subscribe(c.pub, h)
                      /\ ~ENABLED Unsubscribe(c.pub, h)
        /\ c.st = "returned" =>
               [i \in 1..Len(c.started) |-> c.started[i][1]] = c.atStart

\* witness of C19: a call on p1 is suspended in the update of the first of two
\* entries; unsubscribe can be called on p2 and not on p1
NoListChangeWitness ==
    /\ calls["t1"].st = "awaiting" /\ calls["t1"].pub = "p1"
    /\ calls["t1"].atStart = <<"a", "b">> /\ Len(calls["t1"].started) = 1
    /\ ~ENABLED Unsubscribe("p1", "a")
    /\ ENABLED Unsubscribe("p2", "a")

====
